---- MODULE Spec2Model ----
(***************************************************************************)
(* Model of repair_blend.py: the repair session (repair_blend_file), its   *)
(* four strategies, the script runner (run_blender_script) and the format  *)
(* sniffing / transcoding helpers, over a small filesystem.                *)
(*                                                                         *)
(* Files are byte sequences.  A compressed file is its codec's magic, the  *)
(* payload and a one-byte checksum trailer, so decompression can fail and  *)
(* compression is not the identity.                                        *)
(***************************************************************************)
EXTENDS Integers, Sequences, FiniteSets, TLC

\* Number of sessions (calls of repair_blend_file) run one after the other
\* against the same input path.
MaxSessions == 2

----------------------------------------------------------------------------
(* Bytes and file contents *)

BLENDER == <<66, 76, 69, 78, 68, 69, 82>>
GzipMagic == <<31, 139>>
ZstdMagic == <<40, 181, 47, 253>>

\* The content of a path at which no file exists.
Absent == <<-1>>

\* data[:n], also f.read(n): at most the first n bytes.
Prefix(data, n) == SubSeq(data, 1, IF Len(data) < n THEN Len(data) ELSE n)

RECURSIVE SumSeq(_)
SumSeq(s) == IF s = <<>> THEN 0 ELSE Head(s) + SumSeq(Tail(s))

\* The integrity trailer of a compressed stream.
Checksum(payload) == SumSeq(payload) % 256

\* The stream a codec writes for a payload.
Encode(magic, payload) == magic \o payload \o <<Checksum(payload)>>

MagicOf(compression) == IF compression = "gzip" THEN GzipMagic ELSE ZstdMagic

\* What a decoder does with a stream: ok and the bytes it wrote to its
\* output.  A stream shorter than its magic and trailer, with another magic
\* or with a wrong trailer raises before a byte of these short files is
\* written.
Decode(magic, data) ==
    LET n == Len(magic) IN
    IF Len(data) < n + 1 \/ Prefix(data, n) # magic
    THEN [ok |-> FALSE, written |-> <<>>]
    ELSE LET payload == SubSeq(data, n + 1, Len(data) - 1) IN
         IF data[Len(data)] = Checksum(payload)
         THEN [ok |-> TRUE, written |-> payload]
         ELSE [ok |-> FALSE, written |-> <<>>]

----------------------------------------------------------------------------
(* FormatSniffer *)

\* Mutation: the Gzip magic is compared with all four bytes read.
get_compression_type_WholeMagic(data) ==
    IF data = Absent THEN "unknown"
    ELSE LET magic == Prefix(data, 4) IN
         IF magic = GzipMagic THEN "gzip"
         ELSE IF magic = ZstdMagic THEN "zstd"
         ELSE IF Prefix(magic, 4) = Prefix(BLENDER, 4) THEN "None"
         ELSE "unknown"

\* get_compression_type: the first four bytes decide; a missing or
\* unreadable file is 'unknown' (the except branch).
get_compression_type(data) ==
    IF data = Absent THEN "unknown"
    ELSE LET magic == Prefix(data, 4) IN
         IF Prefix(magic, 2) = GzipMagic THEN "gzip"
         ELSE IF magic = ZstdMagic THEN "zstd"
         ELSE IF Prefix(magic, 4) = Prefix(BLENDER, 4) THEN "None"
         ELSE "unknown"

is_blend_file(data) ==
    IF data = Absent THEN FALSE
    ELSE LET header == Prefix(data, 12) IN
         \/ Prefix(header, 7) = BLENDER
         \/ Prefix(header, 2) = GzipMagic
         \/ Prefix(header, 4) = ZstdMagic

is_compressed(data) == get_compression_type(data) \in {"gzip", "zstd"}

\* The result None of get_blend_version.
NoVersion == <<>>

\* reader.read(12) of a compressed stream: the first 12 bytes of the payload.
\* The trailer is not looked at for these first bytes; another magic or a
\* stream that ends before its trailer raises.
HeaderOfStream(magic, data) ==
    LET n == Len(magic) IN
    IF Len(data) < n + 1 \/ Prefix(data, n) # magic
    THEN [ok |-> FALSE, header |-> <<>>]
    ELSE [ok |-> TRUE, header |-> Prefix(SubSeq(data, n + 1, Len(data) - 1), 12)]

\* header[a:b] of Python, a and b counted from 0.
Slice(s, a, b) ==
    LET hi == IF Len(s) < b THEN Len(s) ELSE b IN
    IF hi <= a THEN <<>> ELSE SubSeq(s, a + 1, hi)

\* Mutation: the zeros are not stripped.
LStripZero_Keep(s) == s

\* s.lstrip('0'): every leading '0' is removed.
RECURSIVE LStripZero(_)
LStripZero(s) ==
    IF s # <<>> /\ Head(s) = 48 THEN LStripZero(Tail(s)) ELSE s

\* get_blend_version: the text "<major>.<minor>" as its character codes, or
\* NoVersion.  A byte over 127 fails the ASCII decoding, a version field
\* without a first character fails version[0].
get_blend_version(data, hz) ==
    LET compression == get_compression_type(data)
        h == IF data = Absent THEN [ok |-> FALSE, header |-> <<>>]
             ELSE IF compression = "zstd"
             THEN IF ~hz THEN [ok |-> FALSE, header |-> <<>>]
                  ELSE HeaderOfStream(ZstdMagic, data)
             ELSE IF compression = "gzip" THEN HeaderOfStream(GzipMagic, data)
             ELSE [ok |-> TRUE, header |-> Prefix(data, 12)]
        version == Slice(h.header, 9, 12)
    IN  IF ~h.ok \/ Prefix(h.header, 7) # BLENDER THEN NoVersion
        ELSE IF version = <<>> \/ \E i \in 1..Len(version) : version[i] > 127
        THEN NoVersion
        ELSE LET minor == LStripZero(Slice(version, 1, 3)) IN
             <<version[1], 46>> \o (IF minor = <<>> THEN <<48>> ELSE minor)

----------------------------------------------------------------------------
(* Paths *)

InputArg == "a.blend"
TmpBlend == "/tmp/tmp1.blend"
TmpScript == "/tmp/tmp2.py"

\* os.path.abspath with the working directory /d.
abspath(p) == IF p = "a.blend" THEN "/d/a.blend" ELSE p

input_path == abspath(InputArg)

\* input_path + ".backup"
backup_path == "/d/a.blend.backup"

\* base + "_repaired" + ext, for (base, ext) = splitext(input_path)
DefaultOutput == "/d/a_repaired.blend"

\* The output arguments a caller passes; "None" is the omitted argument.
OutputArgs == {"None", "a.blend", "/d/a.blend.backup"}

ResolveOutput(arg) == abspath(IF arg = "None" THEN DefaultOutput ELSE arg)

Paths == {input_path, backup_path, DefaultOutput, TmpBlend, TmpScript}

Exists(f, p) == f[p] # Absent

\* Mutation: os.unlink leaves the file in place.
Unlink_Noop(f, p) == f

Unlink(f, p) == [f EXCEPT ![p] = Absent]

----------------------------------------------------------------------------
(* Sample files *)

\* "BLENDER-v400" followed by two bytes of file body.
Raw400 == BLENDER \o <<45, 118, 52, 48, 48>> \o <<7, 9>>
\* Not a container: no magic matches.
Junk == <<1, 2, 3, 4, 5>>
\* Starts with BLEN but not with BLENDER.
BlenOnly == <<66, 76, 69, 78, 0>>
\* A compressed stream whose trailer does not match its payload.
Damage(stream) == [stream EXCEPT ![Len(stream)] = (stream[Len(stream)] + 1) % 256]

\* A stream compressed twice: its payload is itself a Gzip stream.
Nested == Encode(GzipMagic, Encode(GzipMagic, Junk))

InputSamples ==
    { Absent, Junk, BlenOnly, Raw400,
      Encode(GzipMagic, Raw400), Encode(GzipMagic, Junk),
      Damage(Encode(GzipMagic, Raw400)), Encode(ZstdMagic, Raw400) }

\* A backup left by an earlier session, before the input was last edited.
OldBackup == BLENDER \o <<45, 118, 51, 54, 48>> \o <<8>>

----------------------------------------------------------------------------
(* CodecTranscoder *)

\* The I/O faults the environment can raise inside strategy 1.
Faults == {"none", "tmp_create", "open_output", "write_output"}

\* decompress_blend: [ok, fs].  The output is opened (created or truncated)
\* after the input, and keeps whatever the decoder wrote before it failed.
decompress_blend(f, src, dst, compression, hz) ==
    IF compression = "zstd" /\ ~hz THEN [ok |-> FALSE, fs |-> f]
    ELSE IF compression \notin {"zstd", "gzip"} THEN [ok |-> FALSE, fs |-> f]
    ELSE IF ~Exists(f, src) THEN [ok |-> FALSE, fs |-> f]
    ELSE LET d == Decode(MagicOf(compression), IF src = dst THEN <<>> ELSE f[src]) IN
         [ok |-> d.ok, fs |-> [f EXCEPT ![dst] = d.written]]

\* Mutation: a zstd request is always served by gzip.
compress_blend_GzipOnly(f, src, dst, compression, hz, fault) ==
    LET codec == IF compression = "zstd" THEN "gzip" ELSE compression IN
    IF codec \notin {"zstd", "gzip"} THEN [ok |-> FALSE, fs |-> f]
    ELSE IF ~Exists(f, src) \/ fault = "open_output" THEN [ok |-> FALSE, fs |-> f]
    ELSE IF fault = "write_output"
         THEN [ok |-> FALSE, fs |-> [f EXCEPT ![dst] = MagicOf(codec)]]
    ELSE LET data == IF src = dst THEN <<>> ELSE f[src] IN
         [ok |-> TRUE, fs |-> [f EXCEPT ![dst] = Encode(MagicOf(codec), data)]]

\* compress_blend: [ok, fs].  Without the zstd backend a zstd request falls
\* back to gzip.  Opening the output truncates it before the input is read.
compress_blend(f, src, dst, compression, hz, fault) ==
    LET codec == IF compression = "zstd" /\ ~hz THEN "gzip" ELSE compression IN
    IF codec \notin {"zstd", "gzip"} THEN [ok |-> FALSE, fs |-> f]
    ELSE IF ~Exists(f, src) \/ fault = "open_output" THEN [ok |-> FALSE, fs |-> f]
    ELSE IF fault = "write_output"
         THEN [ok |-> FALSE, fs |-> [f EXCEPT ![dst] = MagicOf(codec)]]
    ELSE LET data == IF src = dst THEN <<>> ELSE f[src] IN
         [ok |-> TRUE, fs |-> [f EXCEPT ![dst] = Encode(MagicOf(codec), data)]]

----------------------------------------------------------------------------
(* Strategy 1 *)

\* repair_compression: [ret, fs], ret one of "true", "false", "raise".
repair_compression(f, src, dst, hz, fault) ==
    LET compression == get_compression_type(f[src]) IN
    IF compression = "zstd" /\ ~hz THEN [ret |-> "false", fs |-> f]
    ELSE IF compression \in {"None", "unknown"}
    THEN LET c == compress_blend(f, src, dst, "zstd", hz, fault) IN
         [ret |-> IF c.ok THEN "true" ELSE "false", fs |-> c.fs]
    ELSE IF fault = "tmp_create" THEN [ret |-> "raise", fs |-> f]
    ELSE LET f1 == [f EXCEPT ![TmpBlend] = <<>>]
             d == decompress_blend(f1, src, TmpBlend, compression, hz)
             c == compress_blend(d.fs, TmpBlend, dst, compression, hz, fault)
             r == IF ~d.ok THEN [ret |-> "false", fs |-> d.fs]
                  ELSE IF ~is_blend_file(d.fs[TmpBlend]) THEN [ret |-> "false", fs |-> d.fs]
                  ELSE [ret |-> IF c.ok THEN "true" ELSE "false", fs |-> c.fs]
         IN  [ret |-> r.ret,
              fs |-> IF Exists(r.fs, TmpBlend) THEN Unlink(r.fs, TmpBlend) ELSE r.fs]

----------------------------------------------------------------------------
(* ProcessRunner and the external executable *)

Sentinels == {"REPAIR_SUCCESS", "RECOVERY_SUCCESS", "VERIFY_SUCCESS"}

\* The --blender arguments a caller passes; "None" is the omitted argument.
BlenderArgs == {"None", "", "/usr/bin/blender", "/opt/VERIFY_SUCCESS/blender"}

\* What find_blender can return on the machine.
FindResults == {"None", "/usr/bin/blender"}

\* `if blender_path:`
Truthy(p) == p \notin {"None", ""}

\* The sentinels that occur in str(e) of a failed launch: the text names
\* the executable path.
PathTokens(p) == IF p = "/opt/VERIFY_SUCCESS/blender" THEN {"VERIFY_SUCCESS"} ELSE {}

\* The (success, output) pair of run_blender_script; output is the set of
\* sentinels that occur in the text.
NoRun == [success |-> FALSE, output |-> {}]

\* timeout= of each call of run_blender_script
TimeoutOf(st) ==
    CASE st = "verify" -> 60 [] st = "s2" -> 180 [] st = "s3" -> 300 [] st = "s4" -> 300

\* The script file of a stage: '#' and the stage's digit.
ScriptText(st) ==
    CASE st = "verify" -> <<35, 49>> [] st = "s2" -> <<35, 50>>
      [] st = "s3" -> <<35, 51>> [] st = "s4" -> <<35, 52>>

\* What save_as_mainfile(compress=True) writes.
BlenderSaved == Encode(ZstdMagic, BLENDER \o <<45, 118, 52, 48, 48>> \o <<7>>)

\* The combined outputs of the external process that are told apart: no
\* sentinel, one, or all of them.
ProcOutputs == {{}, Sentinels} \cup {{t} : t \in Sentinels}

\* What the external process did to the output file before it ended.
ProcWrites == {"none", "full", "partial"}

\* The verify script only opens the output; the strategy scripts save to it.
ProcEffect(f, st, dst, w) ==
    IF st = "verify" \/ w = "none" THEN f
    ELSE IF w = "full" THEN [f EXCEPT ![dst] = BlenderSaved]
    ELSE [f EXCEPT ![dst] = Prefix(BlenderSaved, 6)]

----------------------------------------------------------------------------
(* Decisions of the strategies and of repair_blend_file *)

repair_with_blender_open(r) == r.success /\ "REPAIR_SUCCESS" \in r.output

\* Mutation: the exit code is not looked at.
repair_with_append_AnyExit(r) == "RECOVERY_SUCCESS" \in r.output

repair_with_append(r) == r.success /\ "RECOVERY_SUCCESS" \in r.output

repair_selective_recovery(r) == r.success /\ "RECOVERY_SUCCESS" \in r.output

StrategyResult(st, r) ==
    CASE st = "s2" -> repair_with_blender_open(r)
      [] st = "s3" -> repair_with_append(r)
      [] st = "s4" -> repair_selective_recovery(r)

StageNo(st) == CASE st = "verify" -> 1 [] st = "s2" -> 2 [] st = "s3" -> 3 [] st = "s4" -> 4

\* Mutation: the success flag decides instead of the sentinel.
VerifyPassed_ByFlag(r) == r.success

\* `if "VERIFY_SUCCESS" in output:`
VerifyPassed(r) == "VERIFY_SUCCESS" \in r.output

\* Mutation: verification is run whether or not an executable was resolved.
AfterCompression_AlwaysVerify(ret, bp) ==
    IF ret = "true" THEN "verify"
    ELSE IF ~Truthy(bp) THEN "cannot_continue" ELSE "s2"

\* Mutation: without an executable a true return is not accepted.
AfterCompression_NoUnverified(ret, bp) ==
    IF ret = "true" /\ Truthy(bp) THEN "verify"
    ELSE IF ~Truthy(bp) THEN "cannot_continue" ELSE "s2"

\* Mutation: the `if not blender_path` return is missing.
AfterCompression_NoGate(ret, bp) ==
    IF ret = "true"
    THEN IF Truthy(bp) THEN "verify" ELSE "success_unverified"
    ELSE "s2"

\* What follows the return of repair_compression: the verification run, the
\* unverified success, the early exhaustion, or strategy 2.
AfterCompression(ret, bp) ==
    IF ret = "true"
    THEN IF Truthy(bp) THEN "verify" ELSE "success_unverified"
    ELSE IF ~Truthy(bp) THEN "cannot_continue" ELSE "s2"

\* What follows the verification run.
AfterVerification(r, bp) ==
    IF VerifyPassed(r) THEN "success"
    ELSE IF ~Truthy(bp) THEN "cannot_continue" ELSE "s2"

\* Mutation: strategies 2 and 3 do not return on success.
NextStage_NoReturn(st, ok) ==
    CASE st = "s2" -> "s3" [] st = "s3" -> "s4"
      [] st = "s4" -> IF ok THEN "success" ELSE "all_failed"

\* Mutation: a failed strategy 2 is followed by strategy 4.
NextStage_SkipThree(st, ok) ==
    IF ok THEN "success"
    ELSE CASE st = "s2" -> "s4" [] st = "s3" -> "s4" [] st = "s4" -> "all_failed"

\* What follows strategy 2, 3 or 4: `if repair_x(...): return True`.
NextStage(st, ok) ==
    IF ok THEN "success"
    ELSE CASE st = "s2" -> "s3" [] st = "s3" -> "s4" [] st = "s4" -> "all_failed"

----------------------------------------------------------------------------
(* State *)

VARIABLES
    fs,            \* the filesystem: path -> bytes, or Absent
    has_zstd,      \* HAS_ZSTD: the zstandard module was imported
    session,       \* number of sessions started so far
    pc,            \* where the current session is
    output_path,   \* the resolved output path of the session
    blender_path,  \* the resolved executable of the session
    stage,         \* the caller of the run in progress: verify, s2, s3, s4
    ret1,          \* what repair_compression returned
    results,       \* the result of each strategy in this session
    attempts,      \* the strategies invoked in this session, in order
    launches,      \* external processes started in this session
    proc,          \* the child of the run in progress: none, running, exited0,
                   \* exited1 (a non-zero code), killed
    run,           \* the pair run_blender_script returns to its caller
    outcome,       \* how the session ended
    compression,   \* what a call of get_compression_type on its own returned
    version        \* what a call of get_blend_version on its own returned

vars == <<fs, has_zstd, session, pc, output_path, blender_path, stage, ret1,
          results, attempts, launches, proc, run, outcome, compression, version>>

\* The results of the two probes called on their own.  A session only
\* prints what they return (lines 508-513), so it leaves these alone.
probes == <<compression, version>>

Stages == {"verify", "s2", "s3", "s4"}

Outcomes == {"success", "success_unverified", "cannot_continue", "all_failed",
             "not_found", "invalid", "exception"}

NoResults == [k \in 1..4 |-> "none"]

Init ==
    /\ \E content \in InputSamples, old \in {Absent, OldBackup} :
          fs = [p \in Paths |-> IF p = input_path THEN content
                                ELSE IF p = backup_path THEN old
                                ELSE Absent]
    /\ has_zstd \in BOOLEAN
    /\ session = 0
    /\ pc = "idle"
    /\ output_path = "None"
    /\ blender_path = "None"
    /\ stage = "none"
    /\ ret1 = "none"
    /\ results = NoResults
    /\ attempts = <<>>
    /\ launches = 0
    /\ proc = "none"
    /\ run = NoRun
    /\ outcome = "none"
    /\ compression = "unset"
    /\ version = NoVersion

\* Leave the current step for a stage of the runner or for the end of the
\* session.  The locals of the finished call (success, output, the process)
\* go out of scope.
Goto(next) ==
    /\ run' = NoRun
    /\ proc' = "none"
    /\ IF next \in Stages
       THEN /\ pc' = "run_create"
            /\ stage' = next
            /\ attempts' = IF next = "verify" THEN attempts
                           ELSE Append(attempts, StageNo(next))
            /\ outcome' = outcome
       ELSE /\ pc' = "done"
            /\ outcome' = next
            /\ stage' = "none"
            /\ attempts' = attempts

----------------------------------------------------------------------------
(* repair_blend_file *)

\* Lines 480-522: path resolution, the two fail-fast checks, the backup and
\* the executable.  copyFails: shutil.copy2 raises.
StartSession(outArg, blArg, found, copyFails) ==
    /\ pc \in {"idle", "done"}
    /\ session < MaxSessions
    /\ session' = session + 1
    /\ stage' = "none"
    /\ ret1' = "none"
    /\ results' = NoResults
    /\ attempts' = <<>>
    /\ launches' = 0
    /\ run' = NoRun
    /\ proc' = "none"
    /\ has_zstd' = has_zstd
    /\ UNCHANGED probes
    /\ IF ~Exists(fs, input_path) \/ ~is_blend_file(fs[input_path])
       THEN /\ pc' = "done"
            /\ outcome' = IF ~Exists(fs, input_path) THEN "not_found" ELSE "invalid"
            /\ output_path' = "None"
            /\ blender_path' = "None"
            /\ fs' = fs
       ELSE /\ output_path' = ResolveOutput(outArg)
            /\ IF ~Exists(fs, backup_path) /\ copyFails
               THEN /\ pc' = "done"
                    /\ outcome' = "exception"
                    /\ blender_path' = "None"
                    /\ fs' = fs
               ELSE /\ fs' = IF Exists(fs, backup_path) THEN fs
                             ELSE [fs EXCEPT ![backup_path] = fs[input_path]]
                    /\ blender_path' = IF blArg = "None" THEN found ELSE blArg
                    /\ pc' = "s1"
                    /\ outcome' = "none"

\* Line 525: the call of repair_compression.
Strategy1(fault) ==
    /\ pc = "s1"
    /\ LET r == repair_compression(fs, input_path, output_path, has_zstd, fault) IN
       /\ fs' = r.fs
       /\ ret1' = r.ret
       /\ attempts' = <<1>>
       /\ IF r.ret = "raise"
          THEN pc' = "done" /\ outcome' = "exception"
          ELSE pc' = "s1_returned" /\ outcome' = outcome
    /\ UNCHANGED <<has_zstd, session, output_path, blender_path, stage, results,
                   launches, proc, run, probes>>

\* Lines 525-546: what the session does with strategy 1's return value.
AfterStrategy1 ==
    /\ pc = "s1_returned"
    /\ results' = [results EXCEPT ![1] =
                      IF ret1 # "true" THEN "fail"
                      ELSE IF Truthy(blender_path) THEN "none" ELSE "ok"]
    /\ Goto(AfterCompression(ret1, blender_path))
    /\ UNCHANGED <<fs, has_zstd, session, output_path, blender_path, ret1, launches, probes>>

\* Lines 534-546: what the session does with the verification run.
AfterVerify ==
    /\ pc = "run_returned"
    /\ stage = "verify"
    /\ results' = [results EXCEPT ![1] = IF VerifyPassed(run) THEN "ok" ELSE "fail"]
    /\ Goto(AfterVerification(run, blender_path))
    /\ UNCHANGED <<fs, has_zstd, session, output_path, blender_path, ret1, launches, probes>>

\* Lines 548-570: what the session does with strategy 2, 3 or 4.
AfterStrategy ==
    /\ pc = "run_returned"
    /\ stage \in {"s2", "s3", "s4"}
    /\ LET ok == StrategyResult(stage, run) IN
       /\ results' = [results EXCEPT ![StageNo(stage)] = IF ok THEN "ok" ELSE "fail"]
       /\ Goto(NextStage(stage, ok))
    /\ UNCHANGED <<fs, has_zstd, session, output_path, blender_path, ret1, launches, probes>>

----------------------------------------------------------------------------
(* run_blender_script *)

\* Lines 233-235: the temporary script.  "create": NamedTemporaryFile
\* raises; "write": f.write raises, after the file was created.  Both
\* exceptions leave run_blender_script and repair_blend_file.
ScriptFaults == {"none", "create", "write"}

RunCreateScript(fault) ==
    /\ pc = "run_create"
    /\ IF fault = "none"
       THEN /\ fs' = [fs EXCEPT ![TmpScript] = ScriptText(stage)]
            /\ pc' = "run_launch"
            /\ outcome' = outcome
       ELSE /\ fs' = IF fault = "write" THEN [fs EXCEPT ![TmpScript] = <<>>] ELSE fs
            /\ pc' = "done"
            /\ outcome' = "exception"
    /\ UNCHANGED <<has_zstd, session, output_path, blender_path, stage, ret1,
                   results, attempts, launches, proc, run, probes>>

\* Lines 238-243 and 248-249: subprocess.run starts the executable, or
\* raises and the exception text becomes the output.
RunLaunch(started) ==
    /\ pc = "run_launch"
    /\ IF started /\ Truthy(blender_path)
       THEN /\ proc' = "running"
            /\ launches' = launches + 1
            /\ run' = run
            /\ pc' = "run_wait"
       ELSE /\ run' = [success |-> FALSE, output |-> PathTokens(blender_path)]
            /\ pc' = "run_finally"
            /\ UNCHANGED <<proc, launches>>
    /\ UNCHANGED <<fs, has_zstd, session, output_path, blender_path, stage, ret1,
                   results, attempts, outcome, probes>>

\* Lines 244-245: the process exits with a code and its combined output.
ProcExit(code, out, w) ==
    /\ pc = "run_wait"
    /\ proc = "running"
    /\ fs' = ProcEffect(fs, stage, output_path, w)
    /\ run' = [success |-> code = 0, output |-> out]
    /\ proc' = IF code = 0 THEN "exited0" ELSE "exited1"
    /\ pc' = "run_finally"
    /\ UNCHANGED <<has_zstd, session, output_path, blender_path, stage, ret1,
                   results, attempts, launches, outcome, probes>>

\* Mutation: the output captured before the timeout is returned.
ProcTimeout_KeepOutput(w) ==
    /\ pc = "run_wait"
    /\ proc = "running"
    /\ fs' = ProcEffect(fs, stage, output_path, w)
    /\ \E out \in ProcOutputs : run' = [success |-> FALSE, output |-> out]
    /\ proc' = "killed"
    /\ pc' = "run_finally"
    /\ UNCHANGED <<has_zstd, session, output_path, blender_path, stage, ret1,
                   results, attempts, launches, outcome, probes>>

\* Lines 246-247: the timeout expires; subprocess.run kills the child and
\* the captured output is replaced by a fixed text.
ProcTimeout(w) ==
    /\ pc = "run_wait"
    /\ proc = "running"
    /\ fs' = ProcEffect(fs, stage, output_path, w)
    /\ run' = [success |-> FALSE, output |-> {}]
    /\ proc' = "killed"
    /\ pc' = "run_finally"
    /\ UNCHANGED <<has_zstd, session, output_path, blender_path, stage, ret1,
                   results, attempts, launches, outcome, probes>>

\* Mutation: the finally clause does not unlink the script.
RunFinally_NoUnlink ==
    /\ pc = "run_finally"
    /\ pc' = "run_returned"
    /\ UNCHANGED <<fs, has_zstd, session, output_path, blender_path, stage, ret1,
                   results, attempts, launches, proc, run, outcome, probes>>

\* Lines 250-252: the finally clause.
RunFinally ==
    /\ pc = "run_finally"
    /\ fs' = IF Exists(fs, TmpScript) THEN Unlink(fs, TmpScript) ELSE fs
    /\ pc' = "run_returned"
    /\ UNCHANGED <<has_zstd, session, output_path, blender_path, stage, ret1,
                   results, attempts, launches, proc, run, outcome, probes>>

----------------------------------------------------------------------------
(* Specification *)

Next ==
    \/ \E outArg \in OutputArgs, blArg \in BlenderArgs, found \in FindResults,
          copyFails \in BOOLEAN : StartSession(outArg, blArg, found, copyFails)
    \/ \E fault \in Faults : Strategy1(fault)
    \/ AfterStrategy1
    \/ AfterVerify
    \/ AfterStrategy
    \/ \E fault \in ScriptFaults : RunCreateScript(fault)
    \/ \E started \in BOOLEAN : RunLaunch(started)
    \/ \E code \in {0, 1}, out \in ProcOutputs, w \in ProcWrites :
          ProcExit(code, out, w)
    \/ \E w \in ProcWrites : ProcTimeout(w)
    \/ RunFinally

Spec == Init /\ [][Next]_vars

\* Sessions on an input that was compressed twice.
NestedInit ==
    /\ \E old \in {Absent, OldBackup} :
          fs = [p \in Paths |-> IF p = input_path THEN Nested
                                ELSE IF p = backup_path THEN old
                                ELSE Absent]
    /\ has_zstd \in BOOLEAN
    /\ session = 0
    /\ pc = "idle"
    /\ output_path = "None"
    /\ blender_path = "None"
    /\ stage = "none"
    /\ ret1 = "none"
    /\ results = NoResults
    /\ attempts = <<>>
    /\ launches = 0
    /\ proc = "none"
    /\ run = NoRun
    /\ outcome = "none"
    /\ compression = "unset"
    /\ version = NoVersion

SpecNested == NestedInit /\ [][Next]_vars

----------------------------------------------------------------------------
(* The two probes called on their own, on files of every shape *)

\* Longest file of arbitrary bytes given to the probes.
MaxSniffLen == 3

\* The bytes of the three magics, and bytes of none.
SniffBytes == {0, 31, 139, 40, 181, 47, 253, 66, 76, 69, 78, 255}

ShortFiles == UNION { [1..n -> SniffBytes] : n \in 0..MaxSniffLen }

\* The 12-byte header "BLENDER-v" d1 d2 d3 for all ASCII digits.
Digits == 48..57
VersionFiles ==
    { BLENDER \o <<45, 118, d1, d2, d3>> : d1 \in Digits, d2 \in Digits, d3 \in Digits }

SniffSamples ==
    ShortFiles \cup VersionFiles
      \cup { Encode(GzipMagic, Raw400), Damage(Encode(GzipMagic, Raw400)),
             Encode(ZstdMagic, Raw400), BLENDER \o <<45, 118, 52, 200, 48>>,
             BLENDER \o <<45, 118>> }

SniffInit ==
    /\ \E content \in SniffSamples :
          fs = [p \in Paths |-> IF p = input_path THEN content ELSE Absent]
    /\ has_zstd \in BOOLEAN
    /\ session = 0
    /\ pc = "idle"
    /\ output_path = "None"
    /\ blender_path = "None"
    /\ stage = "none"
    /\ ret1 = "none"
    /\ results = NoResults
    /\ attempts = <<>>
    /\ launches = 0
    /\ proc = "none"
    /\ run = NoRun
    /\ outcome = "none"
    /\ compression = "unset"
    /\ version = NoVersion

\* A call get_compression_type(input_path).
CallGetCompressionType ==
    /\ pc = "idle"
    /\ compression' = get_compression_type(fs[input_path])
    /\ pc' = "classified"
    /\ UNCHANGED <<fs, has_zstd, session, output_path, blender_path, stage, ret1,
                   results, attempts, launches, proc, run, outcome, version>>

\* A call get_blend_version(input_path).
CallGetBlendVersion ==
    /\ pc = "idle"
    /\ version' = get_blend_version(fs[input_path], has_zstd)
    /\ pc' = "versioned"
    /\ UNCHANGED <<fs, has_zstd, session, output_path, blender_path, stage, ret1,
                   results, attempts, launches, proc, run, outcome, compression>>

SniffNext == CallGetCompressionType \/ CallGetBlendVersion

SpecSniff == SniffInit /\ [][SniffNext]_vars

TypeOK ==
    /\ \A p \in Paths : fs[p] \in Seq(Int)
    /\ has_zstd \in BOOLEAN
    /\ session \in 0..MaxSessions
    /\ pc \in {"idle", "s1", "s1_returned", "run_create", "run_launch", "run_wait",
               "run_finally", "run_returned", "done", "classified", "versioned"}
    /\ stage \in Stages \cup {"none"}
    /\ ret1 \in {"none", "true", "false", "raise"}
    /\ results \in [1..4 -> {"none", "ok", "fail"}]
    /\ launches \in 0..4
    /\ proc \in {"none", "running", "exited0", "exited1", "killed"}
    /\ run \in [success : BOOLEAN, output : SUBSET Sentinels]
    /\ outcome \in Outcomes \cup {"none"}
    /\ compression \in {"unset", "None", "gzip", "zstd", "unknown"}
    /\ version \in Seq(Int)

----------------------------------------------------------------------------
(* Properties *)

NoExecutable == ~Truthy(blender_path)

SessionSucceeded == outcome \in {"success", "success_unverified"}

\* C1: once a strategy's result is success (strategy 1: confirmed by the
\* verification, or accepted unverified without an executable), the session
\* is over with a success outcome, no strategy after it was invoked, no
\* process is running and no process beyond those of the strategies up to it
\* was launched.
C1_StopOnFirstSuccess ==
    \A k \in 1..4 :
        results[k] = "ok" =>
            /\ pc = "done"
            /\ SessionSucceeded
            /\ \A i \in 1..Len(attempts) : attempts[i] <= k
            /\ proc # "running"
            /\ launches <= k

C1_Witness ==
    /\ results[1] = "fail"
    /\ results[2] = "ok"
    /\ pc = "done"
    /\ launches = 2

\* C2: once the backup file exists, no step changes its bytes or deletes it.
C2_BackupNeverChanges ==
    [][Exists(fs, backup_path) => fs'[backup_path] = fs[backup_path]]_vars

\* C3: no step of a session changes the bytes at the input path.
C3_InputNeverWritten ==
    [][fs'[input_path] = fs[input_path]]_vars

\* C4: when run_blender_script has returned, after the process exited zero,
\* exited non-zero, failed to launch or timed out, its temporary script file
\* does not exist.
C4_ScriptRemoved ==
    pc = "run_returned" => ~Exists(fs, TmpScript)

C4_Witness ==
    /\ pc = "run_returned"
    /\ proc = "killed"
    /\ ~Exists(fs, TmpScript)

\* C5: a call of run_blender_script always ends by returning its pair: no
\* session ends in an exception while a stage of the runner is its caller.
C5_RunnerNeverRaises ==
    ~(pc = "done" /\ outcome = "exception" /\ stage \in Stages)

C6_Sentinel(st) == IF st = "s2" THEN "REPAIR_SUCCESS" ELSE "RECOVERY_SUCCESS"

\* C6: strategy 2, 3 or 4 reports success exactly when the process exited
\* with code zero and the output holds the strategy's sentinel.
C6_SuccessIffExitZeroAndSentinel ==
    [][(pc = "run_returned" /\ stage \in {"s2", "s3", "s4"}) =>
          (results'[StageNo(stage)] = "ok"
             <=> (proc = "exited0" /\ C6_Sentinel(stage) \in run.output))]_vars

\* Strategy 3's run has returned the sentinel of a process that exited
\* non-zero, after strategy 2 was reported failed.
C6_Witness ==
    /\ pc = "run_returned"
    /\ stage = "s3"
    /\ proc = "exited1"
    /\ "RECOVERY_SUCCESS" \in run.output
    /\ results[2] = "fail"

\* C7: with an executable and a true return of strategy 1, the session ends
\* in success out of strategy 1 only on a verification output that holds
\* VERIFY_SUCCESS; on an output without it strategy 1 counts as failed and
\* strategy 2 is invoked next.
C7_VerificationDecides ==
    [][/\ (pc = "run_returned" /\ stage = "verify" /\ "VERIFY_SUCCESS" \notin run.output)
            => /\ results'[1] = "fail"
               /\ pc' = "run_create"
               /\ stage' = "s2"
               /\ attempts' = <<1, 2>>
               /\ outcome' = "none"
       /\ (pc # "done" /\ pc' = "done" /\ Truthy(blender_path)
              /\ SessionSucceeded' /\ attempts' = <<1>>)
            => /\ ret1 = "true"
               /\ stage = "verify"
               /\ pc = "run_returned"
               /\ "VERIFY_SUCCESS" \in run.output]_vars

\* The verification process was launched, strategy 1 was downgraded and
\* strategy 2 was invoked.
C7_Witness ==
    /\ ret1 = "true"
    /\ results[1] = "fail"
    /\ stage = "s2"
    /\ launches = 1

\* C8: without an executable, a true return of strategy 1 ends the session
\* in the unverified success, and no process was launched.
C8_UnverifiedSuccess ==
    (NoExecutable /\ ret1 = "true" /\ pc # "s1_returned") =>
        /\ pc = "done"
        /\ outcome = "success_unverified"
        /\ results[1] = "ok"
        /\ attempts = <<1>>
        /\ launches = 0
        /\ proc = "none"

C8_Witness ==
    /\ NoExecutable
    /\ ret1 = "true"
    /\ pc = "done"
    /\ outcome = "success_unverified"

UncompressedInput == Prefix(fs[input_path], 7) = BLENDER

\* C9 as stated: without an executable and with an uncompressed valid
\* input, the session that ran strategy 1 ends with the early exhaustion.
C9_EarlyExhaustion ==
    (pc = "done" /\ NoExecutable /\ UncompressedInput /\ ret1 # "none") =>
        outcome = "cannot_continue"

\* C9 amended: without an executable and with an uncompressed valid input,
\* strategies 2-4 are not attempted and no process is launched; a true
\* return of strategy 1 ends the session in the unverified success, with the
\* input compressed at the output path, and only a false return ends it
\* with the early exhaustion.
C9_CompressedOrExhausted ==
    (pc = "done" /\ NoExecutable /\ UncompressedInput /\ ret1 # "none") =>
        /\ attempts = <<1>>
        /\ launches = 0
        /\ ret1 \in {"true", "false"}
        /\ outcome = IF ret1 = "true" THEN "success_unverified" ELSE "cannot_continue"
        /\ ret1 = "true" =>
              fs[output_path] =
                  Encode(IF has_zstd THEN ZstdMagic ELSE GzipMagic, fs[input_path])

C9_Witness ==
    /\ pc = "done"
    /\ NoExecutable
    /\ UncompressedInput
    /\ ret1 = "false"
    /\ outcome = "cannot_continue"

\* C10: without an executable no strategy but the first is attempted, no
\* process is launched, and a failed strategy 1 ends the session with the
\* early exhaustion, never with the all-strategies-failed outcome.
C10_NoExecutableNoProcess ==
    NoExecutable =>
        /\ \A i \in 1..Len(attempts) : attempts[i] = 1
        /\ launches = 0
        /\ proc = "none"
        /\ stage = "none"
        /\ outcome # "all_failed"
        /\ (pc = "done" /\ ret1 = "false") => outcome = "cannot_continue"

C10_Witness ==
    /\ NoExecutable
    /\ pc = "done"
    /\ ret1 = "false"
    /\ outcome = "cannot_continue"
    /\ ~UncompressedInput

\* C11: in a first session that writes to the default output path, no file
\* is at the output path when strategy 2, 3 or 4 starts, and none is there
\* when the session ends with every strategy failed.
C11_FailedLeavesNoOutput ==
    (session = 1 /\ output_path = DefaultOutput) =>
        /\ (pc = "run_create" /\ stage \in {"s2", "s3", "s4"})
              => ~Exists(fs, output_path)
        /\ (pc = "done" /\ outcome = "all_failed") => ~Exists(fs, output_path)

\* The input is a Gzip stream whose decompressed payload does not start with
\* the signature BLENDER.
C12_PayloadNotBlender ==
    /\ get_compression_type(fs[input_path]) = "gzip"
    /\ LET d == Decode(GzipMagic, fs[input_path]) IN
           d.ok /\ Prefix(d.written, 7) # BLENDER

\* C12: for such an input, strategy 1 returns failure and no file is at the
\* default output path of a first session.
C12_RejectsNonContainerPayload ==
    (pc = "s1_returned" /\ session = 1 /\ output_path = DefaultOutput
        /\ C12_PayloadNotBlender)
    => (ret1 = "false" /\ ~Exists(fs, output_path))

\* C13: a session that ended without attempting any strategy ended because
\* its input was missing or not a container, and no session ends in an
\* exception that escaped repair_blend_file.
C13_OnlyFailFastAborts ==
    pc = "done" =>
        /\ attempts = <<>> => outcome \in {"not_found", "invalid"}
        /\ outcome # "exception"

\* C14 as stated: for a file of fewer than four bytes get_compression_type
\* returned 'unknown'.
C14_ShortFileUnknown ==
    (pc = "classified" /\ Len(fs[input_path]) < 4) => compression = "unknown"

\* C14, amended: for a file of fewer than four bytes get_compression_type
\* returned 'gzip' when the file begins with the two bytes 1F 8B and
\* 'unknown' otherwise; it returned a value in every case.
C14_ShortFileGzipOrUnknown ==
    (pc = "classified" /\ Len(fs[input_path]) < 4) =>
        LET data == fs[input_path] IN
        compression = IF Len(data) >= 2 /\ data[1] = 31 /\ data[2] = 139
                      THEN "gzip" ELSE "unknown"

C14_Witness ==
    /\ pc = "classified"
    /\ fs[input_path] = <<31, 139, 0>>
    /\ compression = "gzip"

\* C15: for an uncompressed file that starts with BLENDER and whose bytes
\* 9-11 are the digits d1 d2 d3, get_blend_version returned d1, a dot, and
\* d2 d3 without its leading zero, a lone "0" when d2 d3 is "00".
C15_VersionText ==
    (pc = "versioned" /\ fs[input_path] \in VersionFiles) =>
        LET d1 == fs[input_path][10]
            d2 == fs[input_path][11]
            d3 == fs[input_path][12]
        IN  version = <<d1, 46>> \o (IF d2 = 48 THEN <<d3>> ELSE <<d2, d3>>)

\* Version bytes 005 gave "0.5".
C15_Witness ==
    /\ pc = "versioned"
    /\ fs[input_path] = BLENDER \o <<45, 118, 48, 48, 53>>
    /\ version = <<48, 46, 53>>

\* C16: the strategies attempted so far in a session are 1, 2, 3, ... in
\* that order, each once, and every strategy before the last one attempted
\* ended in failure.
C16_FixedOrder ==
    /\ \A i \in 1..Len(attempts) : attempts[i] = i
    /\ \A j \in 1..(Len(attempts) - 1) : results[j] = "fail"

C16_Witness ==
    /\ attempts = <<1, 2, 3, 4>>
    /\ pc = "run_create"
    /\ stage = "s4"

\* C17: a run whose process was killed at the timeout returned the flag
\* false, and the step that judges it records a failure for its strategy
\* and does not end the session in success.
C17_TimeoutNeverSuccess ==
    [][(pc = "run_returned" /\ proc = "killed") =>
          /\ ~run.success
          /\ results'[StageNo(stage)] = "fail"
          /\ outcome' \notin {"success", "success_unverified"}]_vars

\* The verification run has returned after its process was killed.
C17_Witness ==
    /\ pc = "run_returned"
    /\ proc = "killed"
    /\ stage = "verify"
    /\ ~run.success

\* C18: a session that has returned ended in success or in exhaustion (or
\* at one of the two fail-fast checks), launched at most four processes and
\* left none running.
C18_EndsInSuccessOrExhaustion ==
    pc = "done" =>
        /\ outcome \in {"success", "success_unverified", "cannot_continue",
                        "all_failed", "not_found", "invalid"}
        /\ launches <= 4
        /\ proc # "running"

\* C19: once repair_compression has returned or raised, its temporary file
\* does not exist.
C19_TempRemoved ==
    (pc = "s1_returned" \/ ret1 = "raise") => ~Exists(fs, TmpBlend)

\* Decompression of a compressed input failed and the temporary is gone.
C19_Witness ==
    /\ pc = "s1_returned"
    /\ ret1 = "false"
    /\ fs[input_path] = Damage(Encode(GzipMagic, Raw400))
    /\ ~Exists(fs, TmpBlend)

\* C20: when repair_compression returned True for an input detected as
\* gzip or zstd, the file at the output path is of the codec detected.  The
\* output path is another file than the input, so the input still holds
\* the bytes that were detected.
C20_SameCodec ==
    (pc = "s1_returned" /\ ret1 = "true" /\ output_path # input_path
        /\ is_compressed(fs[input_path]))
    => get_compression_type(fs[output_path]) = get_compression_type(fs[input_path])

C20_Witness ==
    /\ pc = "s1_returned"
    /\ ret1 = "true"
    /\ output_path = DefaultOutput
    /\ fs[input_path] = Encode(ZstdMagic, Raw400)
    /\ has_zstd
    /\ get_compression_type(fs[output_path]) = "zstd"

\* C21: the step that ends a session in success after a run of
\* run_blender_script judges a run whose process exited with code zero.
C21_SuccessNeedsExitZero ==
    [][(pc = "run_returned" /\ outcome' = "success") => proc = "exited0"]_vars

====
